---- MODULE Spec2Model ----
(***************************************************************************)
(* A model of src/bot.py: a Telegram bot that records check-in / check-out *)
(* times in a Google sheet and computes monthly statistics from it.        *)
(*                                                                         *)
(* Conventions.                                                            *)
(*  - A string is a sequence of one-character strings, so that split(),    *)
(*    int(), strftime() and strptime() are computed and not assumed.  The  *)
(*    button texts and the weekday names, which the code only compares or  *)
(*    copies, are written as a single token.                               *)
(*  - A Python float is modelled as an exact fraction [num, den]; int()    *)
(*    of it truncates toward zero.                                         *)
(*  - A raised exception is modelled by a record field ok = FALSE.         *)
(***************************************************************************)
EXTENDS Integers, Sequences, FiniteSets, TLC

VARIABLES
    sheet,    \* the rows of the Google sheet
    fsm,      \* chat -> "idle" or "waiting" (ActivityState.waiting_for_activity)
    data,     \* chat -> the FSM data of the chat
    now,      \* the clock: Jalali date and time of day in Asia/Tehran
    last,     \* history: the request handled last, the state before it and
              \* the message.answer it sent
    closed,   \* history: chat -> the row its last check-out wrote (0: none)
    pending   \* chat -> what its handler still has to do once the await of
              \* message.answer returns ("none": no handler is suspended)

vars == <<sheet, fsm, data, now, last, closed, pending>>

-----------------------------------------------------------------------------
(* Strings                                                                 *)

DigitChars == <<"0", "1", "2", "3", "4", "5", "6", "7", "8", "9">>

IsDigit(ch) == \E i \in 1..10 : DigitChars[i] = ch

DigitVal(ch) == (CHOOSE i \in 1..10 : DigitChars[i] = ch) - 1

\* str.split(sep): the pieces of s between the occurrences of sep
RECURSIVE split(_, _)
split(s, sep) ==
    IF s = <<>> THEN << <<>> >>
    ELSE LET rest == split(Tail(s), sep)
         IN IF Head(s) = sep
            THEN << <<>> >> \o rest
            ELSE << <<Head(s)>> \o Head(rest) >> \o Tail(rest)

\* sep in s
Contains(s, sep) == \E i \in 1..Len(s) : s[i] = sep

RECURSIVE LStrip(_)
LStrip(s) == IF s # <<>> /\ Head(s) = " " THEN LStrip(Tail(s)) ELSE s

RECURSIVE RStrip(_)
RStrip(s) ==
    IF s # <<>> /\ s[Len(s)] = " " THEN RStrip(SubSeq(s, 1, Len(s) - 1)) ELSE s

RECURSIVE DigitsValue(_, _)
DigitsValue(s, acc) ==
    IF s = <<>> THEN acc ELSE DigitsValue(Tail(s), acc * 10 + DigitVal(Head(s)))

\* int(s) of a str: surrounding blanks stripped, an optional sign, then one
\* or more decimal digits; anything else raises ValueError (ok = FALSE)
PyInt(s) ==
    LET t      == RStrip(LStrip(s))
        signed == t # <<>> /\ Head(t) \in {"-", "+"}
        body   == IF signed THEN Tail(t) ELSE t
    IN IF body # <<>> /\ \A i \in 1..Len(body) : IsDigit(body[i])
       THEN [ok |-> TRUE,
             val |-> IF signed /\ Head(t) = "-"
                     THEN 0 - DigitsValue(body, 0) ELSE DigitsValue(body, 0)]
       ELSE [ok |-> FALSE, val |-> 0]

\* str(n) of a non-negative int
RECURSIVE Digits(_)
Digits(n) ==
    IF n < 10 THEN <<DigitChars[n + 1]>>
    ELSE Digits(n \div 10) \o <<DigitChars[(n % 10) + 1]>>

\* f"{n:02d}": sign, then zeros up to a total width of two
Fmt02d(n) ==
    IF n < 0 THEN <<"-">> \o Digits(0 - n)
    ELSE IF n < 10 THEN <<"0">> \o Digits(n) ELSE Digits(n)

\* int(x) of a float x = num / den, den > 0: truncation toward zero
TruncDiv(num, den) ==
    IF num >= 0 THEN num \div den ELSE 0 - ((0 - num) \div den)

-----------------------------------------------------------------------------
(* The Jalali calendar as jdatetime computes it                            *)

j_days_in_month == <<31, 31, 31, 31, 31, 31, 30, 30, 30, 30, 30, 29>>

g_days_in_month == <<31, 28, 31, 30, 31, 30, 31, 31, 30, 31, 30, 31>>

\* jdatetime.date.isleap
isleap(year) == (year % 33) \in {1, 5, 9, 13, 17, 22, 26, 30}

\* jdatetime.date(year, month, day) raises ValueError on an impossible date
ValidJDate(year, month, day) ==
    /\ month \in 1..12
    /\ day >= 1
    /\ day <= IF month = 12 /\ isleap(year) THEN 30 ELSE j_days_in_month[month]

RECURSIVE SumFirst(_, _)
SumFirst(seq, n) == IF n = 0 THEN 0 ELSE seq[n] + SumFirst(seq, n - 1)

\* days from 1600-01-01 (Gregorian) to the Jalali date
GDayNo(year, month, day) ==
    LET jyear == year - 979
    IN 365 * jyear + (jyear \div 33) * 8 + (((jyear % 33) + 3) \div 4)
       + SumFirst(j_days_in_month, month - 1) + (day - 1) + 79

\* the days of Gregorian month i
GMonthLen(i, leap) == g_days_in_month[i] + (IF i = 2 /\ leap THEN 1 ELSE 0)

RECURSIVE GDaysBefore(_, _)
GDaysBefore(i, leap) ==
    IF i <= 1 THEN 0 ELSE GDaysBefore(i - 1, leap) + GMonthLen(i - 1, leap)

\* jdatetime.date.togregorian(): the Gregorian date of a Jalali date
togregorian(year, month, day) ==
    LET n0 == GDayNo(year, month, day)
        y0 == 1600 + 400 * (n0 \div 146097)
        n1 == n0 % 146097
        c  == n1 >= 36525
        n2 == IF c THEN (n1 - 1) % 36524 ELSE n1
        y1 == IF c THEN y0 + 100 * ((n1 - 1) \div 36524) ELSE y0
        n3 == IF c /\ n2 >= 365 THEN n2 + 1 ELSE n2
        y2 == y1 + 4 * (n3 \div 1461)
        n4 == n3 % 1461
        leap == IF n4 >= 366 THEN FALSE ELSE (IF c THEN n2 >= 365 ELSE TRUE)
        n5 == IF n4 >= 366 THEN (n4 - 1) % 365 ELSE n4
        y3 == IF n4 >= 366 THEN y2 + ((n4 - 1) \div 365) ELSE y2
        gm == CHOOSE i \in 1..12 :
                  GDaysBefore(i, leap) <= n5 /\ n5 < GDaysBefore(i + 1, leap)
    IN [year |-> y3, month |-> gm, day |-> n5 - GDaysBefore(gm, leap) + 1]

\* datetime.date.weekday(): Monday is 0; 1600-01-01 was a Saturday (5)
weekday(year, month, day) == (GDayNo(year, month, day) + 5) % 7

-----------------------------------------------------------------------------
(* Times of day                                                            *)

\* format_time: strftime("%I:%M:%S %p") of a time of day given in seconds
format_time(secs) ==
    LET hour == secs \div 3600
        h12  == IF hour % 12 = 0 THEN 12 ELSE hour % 12
    IN Fmt02d(h12) \o <<":">> \o Fmt02d((secs \div 60) % 60) \o <<":">>
       \o Fmt02d(secs % 60) \o <<" ">>
       \o (IF hour < 12 THEN <<"A", "M">> ELSE <<"P", "M">>)

\* one numeric field of strptime: one or two digits
TimeField(s) == Len(s) \in 1..2 /\ \A i \in 1..Len(s) : IsDigit(s[i])

\* datetime.strptime(s, "%I:%M:%S %p"): the time of day in seconds, or
\* ValueError (ok = FALSE) when s does not match the format
strptime(s) ==
    LET halves == split(s, " ")
        fields == split(halves[1], ":")
        hour   == DigitsValue(fields[1], 0)
        minute == DigitsValue(fields[2], 0)
        second == DigitsValue(fields[3], 0)
    IN IF /\ Len(halves) = 2
          /\ halves[2] \in {<<"A", "M">>, <<"P", "M">>}
          /\ Len(fields) = 3
          /\ \A i \in 1..3 : TimeField(fields[i])
          /\ hour \in 1..12 /\ minute \in 0..59 /\ second \in 0..59
       THEN [ok |-> TRUE,
             secs |-> ((hour % 12) + (IF halves[2] = <<"P", "M">> THEN 12 ELSE 0))
                      * 3600 + minute * 60 + second]
       ELSE [ok |-> FALSE, secs |-> 0]

\* a duration that is the distance between the two times of day
total_hours_str_without_next_day(time_in, time_out) ==
    LET seconds == IF time_out < time_in THEN time_in - time_out
                   ELSE time_out - time_in
    IN Digits(seconds \div 3600) \o <<":">> \o Fmt02d((seconds \div 60) % 60)
       \o <<":", "0", "0">>

\* the duration string of a session: time_out moved to the next day when it
\* is before time_in, then f"{seconds // 3600}:{(seconds // 60) % 60:02d}:00"
total_hours_str(time_in, time_out) ==
    LET out     == IF time_out < time_in THEN time_out + 86400 ELSE time_out
        seconds == out - time_in
    IN Digits(seconds \div 3600) \o <<":">> \o Fmt02d((seconds \div 60) % 60)
       \o <<":", "0", "0">>

-----------------------------------------------------------------------------
(* The sheet: a sequence of rows of six cells, row 1 the header            *)

BlankRow == << <<>>, <<>>, <<>>, <<>>, <<>>, <<>> >>

\* the column titles, as the comments of the check-in row name them
HeaderRow == << <<"date">>, <<"weekday">>, <<"check_in">>, <<"check_out">>,
                <<"total_hours">>, <<"activity">> >>

\* sheet.get_all_values(): every row up to the last one that holds a value
RECURSIVE get_all_values(_)
get_all_values(sh) ==
    IF sh # <<>> /\ sh[Len(sh)] = BlankRow
    THEN get_all_values(SubSeq(sh, 1, Len(sh) - 1))
    ELSE sh

\* sheet.update_cell(row, col, value): the rows below the data are blank
update_cell(sh, row, col, value) ==
    [i \in 1..(IF row > Len(sh) THEN row ELSE Len(sh)) |->
        LET old == IF i <= Len(sh) THEN sh[i] ELSE BlankRow
        IN IF i = row THEN [old EXCEPT ![col] = value] ELSE old]

\* a writer that puts the values into the first row whose date is blank
append_row_into_free_slot(sh, values) ==
    LET rows == get_all_values(sh)
        free == {i \in 2..Len(rows) : rows[i][1] = <<>>}
    IN IF free = {} THEN Append(rows, values)
       ELSE [rows EXCEPT ![CHOOSE i \in free : \A j \in free : i <= j] = values]

\* sheet.append_row(values): a new row after the last row that holds a value
append_row(sh, values) == Append(get_all_values(sh), values)

-----------------------------------------------------------------------------
(* Monthly statistics                                                      *)

hourly_rate == 55000

RECURSIVE GCD(_, _)
GCD(a, b) == IF b = 0 THEN a ELSE GCD(b, a % b)

\* hourly_rate / 60, the pay of a minute, in lowest terms
RateNum == hourly_rate \div GCD(hourly_rate, 60)
RateDen == 60 \div GCD(hourly_rate, 60)

\* a loop that adds the minutes of a record before it compares the month
ParseRecord_minutes_before_month(record, current_month) ==
    LET date_parts == split(record[1], "/")
        time_parts == split(record[5], ":")
        in_month   == PyInt(date_parts[2]).val = current_month
    IN IF /\ Len(record) >= 5 /\ record[5] # <<>> /\ record[1] # <<>>
          /\ Len(date_parts) >= 3
          /\ \A k \in 1..3 : PyInt(date_parts[k]).ok
       THEN [counted |-> in_month,
             day     |-> IF in_month THEN PyInt(date_parts[3]).val ELSE 0,
             minutes |-> IF /\ Len(time_parts) >= 2
                            /\ PyInt(time_parts[1]).ok /\ PyInt(time_parts[2]).ok
                         THEN PyInt(time_parts[1]).val * 60
                              + PyInt(time_parts[2]).val
                         ELSE 0]
       ELSE [counted |-> FALSE, day |-> 0, minutes |-> 0]

\* one pass of the loop of calculate_monthly_stats over a record: whether
\* the record's day is added to worked_days, and the minutes it adds
ParseRecord(record, current_month) ==
    LET skip == [counted |-> FALSE, day |-> 0, minutes |-> 0]
    IN IF ~(/\ Len(record) >= 5 /\ record[5] # <<>> /\ record[1] # <<>>
            /\ Contains(record[1], "/"))
       THEN skip
       ELSE LET date_parts == split(record[1], "/")
            IN IF Len(date_parts) < 3 THEN skip
               ELSE LET record_year  == PyInt(date_parts[1])
                        record_month == PyInt(date_parts[2])
                        record_day   == PyInt(date_parts[3])
                    IN IF ~record_year.ok \/ ~record_month.ok \/ ~record_day.ok
                       THEN skip                       \* ValueError, logged
                       ELSE IF record_month.val # current_month THEN skip
                       ELSE LET time_parts == split(record[5], ":")
                                hours      == PyInt(time_parts[1])
                                minutes    == PyInt(time_parts[2])
                            IN [counted |-> TRUE,
                                day     |-> record_day.val,
                                minutes |->
                                    IF /\ Contains(record[5], ":")
                                       /\ Len(time_parts) >= 2
                                       /\ hours.ok /\ minutes.ok
                                    THEN hours.val * 60 + minutes.val
                                    ELSE 0]

\* total_minutes after the records 2..n of all_records
RECURSIVE TotalMinutes(_, _, _)
TotalMinutes(all_records, current_month, n) ==
    IF n <= 1 THEN 0
    ELSE TotalMinutes(all_records, current_month, n - 1)
         + ParseRecord(all_records[n], current_month).minutes

\* worked_days after the loop
WorkedDays(all_records, current_month) ==
    {ParseRecord(all_records[i], current_month).day :
        i \in {j \in 2..Len(all_records) :
                 ParseRecord(all_records[j], current_month).counted}}

get_last_day_of_month(year, month) ==
    IF month = 12
    THEN IF togregorian(year, 12, 29).year % 4 = 0 THEN 30 ELSE 29
    ELSE IF month \in 1..6 THEN 31 ELSE 30

\* the loops counting the days 1..upto of the month that are not a Friday
NonFridays(year, month, upto) ==
    Cardinality({day \in 1..upto : weekday(year, month, day) # 4})

\* calculate_monthly_stats(sheet, current_month) at the Jalali date
\* (year, current_month, current_day); the salaries are exact fractions
calculate_monthly_stats(all_records, year, current_month, current_day) ==
    LET total_minutes == TotalMinutes(all_records, current_month, Len(all_records))
        worked_days   == WorkedDays(all_records, current_month)
        days_worked   == Cardinality(worked_days)
        business_days == NonFridays(year, current_month, current_day)
        month_length  == get_last_day_of_month(year, current_month)
        total_business_days == NonFridays(year, current_month, month_length)
        remainig_days == total_business_days - current_day
    IN IF \E day \in (1..current_day) \cup (1..month_length) :
              ~ValidJDate(year, current_month, day)
       THEN [ok |-> FALSE]                             \* jdatetime.date raises
       ELSE [ok |-> TRUE,
             total_hours |-> Fmt02d(TruncDiv(total_minutes, 60)) \o <<":">>
                             \o Fmt02d(total_minutes % 60),
             \* total_hours * hourly_rate, total_hours = total_minutes / 60
             current_salary |->
                 [num |-> total_minutes * RateNum, den |-> RateDen],
             \* remainig_days * 8 * hourly_rate + current_salary
             expected_salary |->
                 [num |-> (remainig_days * 8 * 60 + total_minutes) * RateNum,
                  den |-> RateDen],
             \* avg_hours_per_day * remainig_days * hourly_rate + current_salary
             projected_salary |->
                 IF days_worked > 0
                 THEN [num |-> total_minutes * (remainig_days + days_worked)
                               * RateNum,
                       den |-> RateDen * days_worked]
                 ELSE [num |-> total_minutes * RateNum, den |-> RateDen]]

\* one pass of the loop of calculate_monthly_hours: the minutes a record adds
HoursRecord(record, current_month) ==
    IF ~(/\ Len(record) >= 5 /\ record[5] # <<>> /\ record[1] # <<>>
         /\ Contains(record[1], "/"))
    THEN 0
    ELSE LET date_parts   == split(record[1], "/")
             record_month == PyInt(date_parts[2])
             time_parts   == split(record[5], ":")
             hours        == PyInt(time_parts[1])
             minutes      == PyInt(time_parts[2])
         IN IF /\ Len(date_parts) >= 2
               /\ record_month.ok /\ record_month.val = current_month
               /\ Contains(record[5], ":") /\ Len(time_parts) >= 2
               /\ hours.ok /\ minutes.ok
            THEN hours.val * 60 + minutes.val
            ELSE 0

RECURSIVE HoursMinutes(_, _, _)
HoursMinutes(all_records, current_month, n) ==
    IF n <= 1 THEN 0
    ELSE HoursMinutes(all_records, current_month, n - 1)
         + HoursRecord(all_records[n], current_month)

\* calculate_monthly_hours(sheet, current_month)
calculate_monthly_hours(all_records, current_month) ==
    LET total_minutes == HoursMinutes(all_records, current_month, Len(all_records))
    IN Fmt02d(total_minutes \div 60) \o <<":">> \o Fmt02d(total_minutes % 60)

-----------------------------------------------------------------------------
(* The bot                                                                 *)

MaxRows == 4
MaxInitRows == 2
MaxStatsRows == 2

\* the conversations the FSM storage holds state for
Chats == {1, 2}

\* the conversation whose requests Spec handles one at a time
OneChat == {1}

StartCmd     == <<"/start">>
StatsCmd     == <<"/stats">>
CheckInText  == <<"Check In">>
CheckOutText == <<"Check Out">>
NoteText     == <<"report">>

weekday_map == << <<"doshanbe">>, <<"seshanbe">>, <<"chaharshanbe">>,
                  <<"panjshanbe">>, <<"jome">>, <<"shanbe">>, <<"yekshanbe">> >>

get_persian_weekday(t) == weekday_map[weekday(t.year, t.month, t.day) + 1]

\* str(n).zfill(2) of a non-negative int
zfill2(n) == IF n < 10 THEN <<"0">> \o Digits(n) ELSE Digits(n)

\* f"{jdate.year}/{str(jdate.month).zfill(2)}/{str(jdate.day).zfill(2)}"
persian_date(t) ==
    Digits(t.year) \o <<"/">> \o zfill2(t.month) \o <<"/">> \o zfill2(t.day)

Clock(y, m, d, s) == [year |-> y, month |-> m, day |-> d, secs |-> s]

\* the instants the clock takes in the bot's runs
BotClock == { Clock(1403, 1, 5, 32400), Clock(1403, 1, 6, 600) }

\* the dates the statistics are asked at
StatsClock == { Clock(1403, 1, 1, 32400), Clock(1403, 1, 10, 32400),
                Clock(1403, 1, 31, 32400), Clock(1402, 12, 15, 32400),
                Clock(1403, 12, 30, 32400) }

Later(t, u) ==
    \/ GDayNo(t.year, t.month, t.day) > GDayNo(u.year, u.month, u.day)
    \/ /\ GDayNo(t.year, t.month, t.day) = GDayNo(u.year, u.month, u.day)
       /\ t.secs > u.secs

\* a row of the sheet
Row(date, time_in, time_out, duration, note) ==
    <<date, <<"shanbe">>, time_in, time_out, duration, note>>

OpenRow   == Row(persian_date(Clock(1403, 1, 4, 0)), format_time(28800),
                 <<>>, <<>>, <<>>)
ClosedRow == Row(persian_date(Clock(1403, 1, 3, 0)), format_time(32400),
                 format_time(61200), <<"8", ":", "0", "0", ":", "0", "0">>,
                 <<"done">>)

\* the rows a sheet holds when the bot starts: sessions the bot wrote, and
\* blank padding rows
BotRowPool == {OpenRow, ClosedRow, BlankRow}

DateA == persian_date(Clock(1403, 1, 5, 0))
TimeA == format_time(32400)
TimeB == format_time(61200)

\* the rows of the ledgers the statistics are computed from
StatsRowPool ==
    { Row(DateA, TimeA, TimeB, <<"8", ":", "0", "0", ":", "0", "0">>, <<>>),
      Row(DateA, TimeA, TimeB, <<"1", ":", "3", "0", ":", "4", "5">>, <<>>),
      Row(persian_date(Clock(1402, 1, 7, 0)), TimeA, TimeB,
          <<"2", ":", "0", "0", ":", "0", "0">>, <<>>),
      Row(persian_date(Clock(1403, 1, 8, 0)), TimeA, TimeB,
          <<"x", ":", "3", "0">>, <<>>),
      Row(persian_date(Clock(1403, 1, 9, 0)), TimeA, TimeB,
          <<"-", "1", ":", "3", "0">>, <<>>),
      Row(<<"1", "4", "0", "3", "/", "1", "3", "/", "0", "1">>, TimeA, TimeB,
          <<"3", ":", "0", "0", ":", "0", "0">>, <<>>),
      Row(persian_date(Clock(1403, 1, 10, 0)), TimeA, <<>>, <<>>, <<>>),
      BlankRow }

\* the sheets of at most n rows below the header whose last row holds a value
Sheets(pool, n) ==
    { <<HeaderRow>> \o body :
        body \in { b \in UNION { [1..k -> pool] : k \in 0..n } :
                     b = <<>> \/ b[Len(b)] # BlankRow } }

NoData == [has |-> FALSE, row_number |-> 0, start_time |-> <<>>,
           end_time |-> <<>>, total_hours |-> <<>>]

NoAnswer == [kind |-> "none"]

Request(op, c, text, answer) ==
    [op |-> op, chat |-> c, text |-> text, at |-> now, before |-> sheet,
     state |-> fsm[c], answer |-> answer]

Init ==
    /\ sheet \in Sheets(BotRowPool, MaxInitRows)
    /\ now \in BotClock
    /\ fsm = [c \in Chats |-> "idle"]
    /\ data = [c \in Chats |-> NoData]
    /\ last = [op |-> "none", chat |-> 0, text |-> <<>>, at |-> now,
               before |-> <<>>, state |-> "idle", answer |-> NoAnswer]
    /\ closed = [c \in Chats |-> 0]
    /\ pending = [c \in Chats |-> "none"]

InitStats ==
    /\ sheet \in Sheets(StatsRowPool, MaxStatsRows)
    /\ now \in StatsClock
    /\ fsm = [c \in Chats |-> "idle"]
    /\ data = [c \in Chats |-> NoData]
    /\ last = [op |-> "none", chat |-> 0, text |-> <<>>, at |-> now,
               before |-> <<>>, state |-> "idle", answer |-> NoAnswer]
    /\ closed = [c \in Chats |-> 0]
    /\ pending = [c \in Chats |-> "none"]

\* time passes
Tick ==
    /\ \E t \in BotClock : Later(t, now) /\ now' = t
    /\ UNCHANGED <<sheet, fsm, data, last, closed, pending>>

\* cmd_start
CmdStart(c) ==
    /\ last' = Request("start", c, StartCmd, [kind |-> "start"])
    /\ UNCHANGED <<sheet, fsm, data, now, closed, pending>>

\* cmd_stats: the salaries are sent as int(...) of the floats
cmd_stats_answer(sh, t) ==
    LET monthly_stats ==
            calculate_monthly_stats(get_all_values(sh), t.year, t.month, t.day)
    IN IF monthly_stats.ok
       THEN [kind |-> "stats",
             total_hours |-> monthly_stats.total_hours,
             current_salary |->
                 TruncDiv(monthly_stats.current_salary.num,
                          monthly_stats.current_salary.den),
             expected_salary |->
                 TruncDiv(monthly_stats.expected_salary.num,
                          monthly_stats.expected_salary.den),
             projected_salary |->
                 TruncDiv(monthly_stats.projected_salary.num,
                          monthly_stats.projected_salary.den)]
       ELSE [kind |-> "stats_error"]

\* a cmd_stats that ends with state.clear()
CmdStatsClearsState(c) ==
    /\ last' = Request("stats", c, StatsCmd, cmd_stats_answer(sheet, now))
    /\ fsm' = [fsm EXCEPT ![c] = "idle"]
    /\ data' = [data EXCEPT ![c] = NoData]
    /\ UNCHANGED <<sheet, now, closed, pending>>

CmdStats(c) ==
    /\ last' = Request("stats", c, StatsCmd, cmd_stats_answer(sheet, now))
    /\ UNCHANGED <<sheet, fsm, data, now, closed, pending>>

\* process_activity: every message of a chat that is waiting for its activity
ProcessActivity(c, text) ==
    /\ fsm[c] = "waiting"
    /\ IF data[c].has
       THEN LET written == update_cell(sheet, data[c].row_number, 6, text)
                greg    == togregorian(now.year, now.month, now.day)
            IN /\ sheet' = written
               /\ last' = Request("note", c, text,
                     [kind |-> "summary",
                      start_time |-> data[c].start_time,
                      end_time |-> data[c].end_time,
                      total_hours |-> data[c].total_hours,
                      monthly_total |->
                          calculate_monthly_hours(get_all_values(written),
                                                  greg.month)])
               /\ fsm' = [fsm EXCEPT ![c] = "idle"]          \* state.clear()
               /\ data' = [data EXCEPT ![c] = NoData]
       ELSE \* row_number is None: update_cell raises, the handler logs it
            /\ last' = Request("note", c, text, NoAnswer)
            /\ UNCHANGED <<sheet, fsm, data>>
    /\ UNCHANGED <<now, closed, pending>>

\* handle_time_logging, "Check In"
CheckIn(c) ==
    /\ fsm[c] = "idle"
    /\ Len(get_all_values(sheet)) < MaxRows
    /\ sheet' = append_row(sheet, << persian_date(now), get_persian_weekday(now),
                                     format_time(now.secs), <<>>, <<>>, <<>> >>)
    /\ last' = Request("check_in", c, CheckInText,
                       [kind |-> "check_in", time |-> format_time(now.secs)])
    /\ UNCHANGED <<fsm, data, now, closed, pending>>

\* the row the loop of the check-out stops at: the last row of all_records,
\* the header included, whose check-out cell is empty (0: the loop ends)
CheckOutRow(all_records) ==
    LET found == {i \in 1..Len(all_records) : all_records[i][4] = <<>>}
    IN IF found = {} THEN 0
       ELSE CHOOSE i \in found : \A j \in found : j <= i

\* handle_time_logging, "Check Out"
CheckOut(c) ==
    LET all_records  == get_all_values(sheet)
        current_time == format_time(now.secs)
        row_number   == CheckOutRow(all_records)
        time_in      == strptime(all_records[row_number][3])
        time_out     == strptime(current_time)
        duration     == total_hours_str(time_in.secs, time_out.secs)
        timed        == update_cell(sheet, row_number, 4, current_time)
    IN /\ fsm[c] = "idle"
       /\ IF row_number = 0
          THEN /\ last' = Request("check_out", c, CheckOutText,
                                  [kind |-> "check_in_first"])
               /\ UNCHANGED <<sheet, fsm, data, closed>>
          ELSE /\ IF time_in.ok /\ time_out.ok
                  THEN /\ sheet' = update_cell(timed, row_number, 5, duration)
                       /\ data' = [data EXCEPT ![c] =
                              [has |-> TRUE, row_number |-> row_number,
                               start_time |-> all_records[row_number][3],
                               end_time |-> current_time,
                               total_hours |-> duration]]
                  ELSE \* strptime raises: logged, no duration, no FSM data
                       /\ sheet' = timed
                       /\ UNCHANGED data
               /\ last' = Request("check_out", c, CheckOutText,
                                  [kind |-> "check_out", time |-> current_time])
               /\ fsm' = [fsm EXCEPT ![c] = "waiting"]
               /\ closed' = [closed EXCEPT ![c] = row_number]
       /\ UNCHANGED <<now, pending>>

\* handle_time_logging, any other text: nothing is written or answered
OtherText(c) ==
    /\ fsm[c] = "idle"
    /\ last' = Request("other", c, NoteText, NoAnswer)
    /\ UNCHANGED <<sheet, fsm, data, now, closed, pending>>

\* the requests of the conversations cs, each handled to its end
Handle(cs) ==
    \/ \E c \in cs : CmdStart(c)
    \/ \E c \in cs : CmdStats(c)
    \/ \E c \in cs : \E text \in {NoteText, CheckInText} : ProcessActivity(c, text)
    \/ \E c \in cs : CheckIn(c)
    \/ \E c \in cs : CheckOut(c)
    \/ \E c \in cs : OtherText(c)

Next == Tick \/ Handle(OneChat)

Spec == Init /\ [][Next]_vars

\* the statistics alone, over ledgers of any content
NextStats == \E c \in Chats : CmdStats(c)

SpecStats == InitStats /\ [][NextStats]_vars

\* a check-out that reads the sheet, suspends, and writes when it resumes
CheckOutBeginReadThenYield(c) ==
    LET row_number == CheckOutRow(get_all_values(sheet))
    IN /\ fsm[c] = "idle" /\ pending[c] = "none"
       /\ row_number # 0
       /\ data' = [data EXCEPT ![c] =
              [has |-> TRUE, row_number |-> row_number,
               start_time |-> sheet[row_number][3],
               end_time |-> format_time(now.secs),
               total_hours |-> <<>>]]
       /\ last' = Request("check_out", c, CheckOutText,
                          [kind |-> "check_out", time |-> format_time(now.secs)])
       /\ closed' = [closed EXCEPT ![c] = row_number]
       /\ pending' = [pending EXCEPT ![c] = "set_state"]
       /\ UNCHANGED <<sheet, fsm, now>>

\* handle_time_logging, "Check Out", up to its await of message.answer.  The
\* gspread calls block the event loop and state.update_data does not
\* suspend, so the read of the sheet, the two writes and the FSM data are
\* one step; set_state runs when message.answer has returned.
CheckOutBegin(c) ==
    LET all_records  == get_all_values(sheet)
        current_time == format_time(now.secs)
        row_number   == CheckOutRow(all_records)
        time_in      == strptime(all_records[row_number][3])
        time_out     == strptime(current_time)
        duration     == total_hours_str(time_in.secs, time_out.secs)
        timed        == update_cell(sheet, row_number, 4, current_time)
    IN /\ fsm[c] = "idle" /\ pending[c] = "none"
       /\ IF row_number = 0
          THEN /\ last' = Request("check_out", c, CheckOutText,
                                  [kind |-> "check_in_first"])
               /\ UNCHANGED <<sheet, data, closed, pending>>
          ELSE /\ IF time_in.ok /\ time_out.ok
                  THEN /\ sheet' = update_cell(timed, row_number, 5, duration)
                       /\ data' = [data EXCEPT ![c] =
                              [has |-> TRUE, row_number |-> row_number,
                               start_time |-> all_records[row_number][3],
                               end_time |-> current_time,
                               total_hours |-> duration]]
                  ELSE /\ sheet' = timed
                       /\ UNCHANGED data
               /\ last' = Request("check_out", c, CheckOutText,
                                  [kind |-> "check_out", time |-> current_time])
               /\ closed' = [closed EXCEPT ![c] = row_number]
               /\ pending' = [pending EXCEPT ![c] = "set_state"]
       /\ UNCHANGED <<fsm, now>>

\* handle_time_logging, "Check Out", after message.answer: state.set_state
CheckOutEnd(c) ==
    /\ pending[c] = "set_state"
    /\ fsm' = [fsm EXCEPT ![c] = "waiting"]
    /\ pending' = [pending EXCEPT ![c] = "none"]
    /\ UNCHANGED <<sheet, data, now, last, closed>>

\* process_activity up to its await of message.answer
NoteBegin(c, text) ==
    /\ fsm[c] = "waiting" /\ pending[c] = "none"
    /\ IF data[c].has
       THEN LET written == update_cell(sheet, data[c].row_number, 6, text)
                greg    == togregorian(now.year, now.month, now.day)
            IN /\ sheet' = written
               /\ last' = Request("note", c, text,
                     [kind |-> "summary",
                      start_time |-> data[c].start_time,
                      end_time |-> data[c].end_time,
                      total_hours |-> data[c].total_hours,
                      monthly_total |->
                          calculate_monthly_hours(get_all_values(written),
                                                  greg.month)])
               /\ pending' = [pending EXCEPT ![c] = "clear"]
       ELSE /\ last' = Request("note", c, text, NoAnswer)
            /\ UNCHANGED <<sheet, pending>>
    /\ UNCHANGED <<fsm, data, now, closed>>

\* process_activity after message.answer: state.clear()
NoteEnd(c) ==
    /\ pending[c] = "clear"
    /\ fsm' = [fsm EXCEPT ![c] = "idle"]
    /\ data' = [data EXCEPT ![c] = NoData]
    /\ pending' = [pending EXCEPT ![c] = "none"]
    /\ UNCHANGED <<sheet, now, last, closed>>

\* the note each conversation sends
NoteOf(c) == IF c = 1 THEN NoteText ELSE <<"review">>

\* the handlers of two conversations, interleaved at their awaits; a
\* conversation sends its next message when the last one is handled
NextTwo ==
    \/ \E c \in Chats : pending[c] = "none" /\ CheckIn(c)
    \/ \E c \in Chats : CheckOutBegin(c)
    \/ \E c \in Chats : CheckOutEnd(c)
    \/ \E c \in Chats : NoteBegin(c, NoteOf(c))
    \/ \E c \in Chats : NoteEnd(c)

SpecTwo == Init /\ [][NextTwo]_vars

\* handle_time_logging, "Check Out", when a write to the sheet raises.  The
\* write of the check-out time is outside the try: the exception leaves the
\* handler, nothing is answered and the state is not set.  The write of the
\* duration is inside it: the exception is logged, the FSM data is not
\* stored, and the handler goes on to answer and to set the state.
CheckOutWriteFails(c, col) ==
    LET all_records  == get_all_values(sheet)
        current_time == format_time(now.secs)
        row_number   == CheckOutRow(all_records)
        time_in      == strptime(all_records[row_number][3])
    IN /\ fsm[c] = "idle"
       /\ row_number # 0
       /\ IF col = 4
          THEN /\ last' = Request("check_out_failed", c, CheckOutText, NoAnswer)
               /\ UNCHANGED <<sheet, fsm, closed>>
          ELSE /\ time_in.ok
               /\ sheet' = update_cell(sheet, row_number, 4, current_time)
               /\ last' = Request("check_out_failed", c, CheckOutText,
                                  [kind |-> "check_out", time |-> current_time])
               /\ fsm' = [fsm EXCEPT ![c] = "waiting"]
               /\ closed' = [closed EXCEPT ![c] = row_number]
       /\ UNCHANGED <<data, now, pending>>

\* process_activity when the write of the note raises: the exception is
\* logged, nothing is answered and the state is not cleared
NoteWriteFails(c, text) ==
    /\ fsm[c] = "waiting"
    /\ data[c].has
    /\ last' = Request("note_failed", c, text, NoAnswer)
    /\ UNCHANGED <<sheet, fsm, data, now, closed, pending>>

\* the requests of a conversation when a write to the sheet may fail
NextFail ==
    \/ \E c \in OneChat : CheckIn(c)
    \/ \E c \in OneChat : CheckOut(c)
    \/ \E c \in OneChat : ProcessActivity(c, NoteText)
    \/ \E c \in OneChat : \E col \in {4, 5} : CheckOutWriteFails(c, col)
    \/ \E c \in OneChat : NoteWriteFails(c, NoteText)

SpecFail == Init /\ [][NextFail]_vars

\* the check-out of a session for a range of check-in and check-out times
MaxTimes == 6

TimePoints ==
    {0, 59, 60, 3599, 43200, 86399}
        \cup { (40000 + k * 7919) % 86400 : k \in 1..MaxTimes }

InitTimes ==
    /\ now \in { Clock(1403, 1, 5, t_out) : t_out \in TimePoints }
    /\ sheet \in { <<HeaderRow, Row(DateA, format_time(t_in), <<>>, <<>>, <<>>)>> :
                     t_in \in TimePoints }
    /\ fsm = [c \in Chats |-> "idle"]
    /\ data = [c \in Chats |-> NoData]
    /\ last = [op |-> "none", chat |-> 0, text |-> <<>>, at |-> now,
               before |-> <<>>, state |-> "idle", answer |-> NoAnswer]
    /\ closed = [c \in Chats |-> 0]
    /\ pending = [c \in Chats |-> "none"]

NextTimes == \E c \in OneChat : CheckOut(c)

SpecTimes == InitTimes /\ [][NextTimes]_vars

\* the statistics asked on every day of a range of Jalali years
MaxYears == 5

CalendarYears == { 1399 + k : k \in 0..MaxYears }

CalendarClock ==
    { Clock(y, m, d, 32400) :
        <<y, m, d>> \in { t \in CalendarYears \X (1..12) \X (1..31) :
                            ValidJDate(t[1], t[2], t[3]) } }

InitCalendar ==
    /\ sheet = <<HeaderRow>>
    /\ now \in CalendarClock
    /\ fsm = [c \in Chats |-> "idle"]
    /\ data = [c \in Chats |-> NoData]
    /\ last = [op |-> "none", chat |-> 0, text |-> <<>>, at |-> now,
               before |-> <<>>, state |-> "idle", answer |-> NoAnswer]
    /\ closed = [c \in Chats |-> 0]
    /\ pending = [c \in Chats |-> "none"]

SpecCalendar == InitCalendar /\ [][NextStats]_vars

-----------------------------------------------------------------------------
(* Check-in and check-out (Spec)                                           *)

\* the rows of sh that hold a check-in time and no check-out time
OpenSessions(sh) == {i \in 2..Len(sh) : sh[i][3] # <<>> /\ sh[i][4] = <<>>}

MaxOf(S) == CHOOSE i \in S : \A j \in S : j <= i
MinOf(S) == CHOOSE i \in S : \A j \in S : i <= j

\* the rows of sh below the header whose date cell is blank
FreeSlots(sh) == {i \in 2..Len(sh) : sh[i][1] = <<>>}

\* r is the row of a session opened at the instant t: the date, the weekday
\* and the check-in time read back as t, the other cells blank
NewSession(r, t) ==
    LET date_parts == split(r[1], "/")
    IN /\ Len(date_parts) = 3
       /\ PyInt(date_parts[1]).val = t.year
       /\ PyInt(date_parts[2]).val = t.month
       /\ PyInt(date_parts[3]).val = t.day
       /\ r[2] = get_persian_weekday(t)
       /\ strptime(r[3]).ok /\ strptime(r[3]).secs = t.secs
       /\ r[4] = <<>> /\ r[5] = <<>> /\ r[6] = <<>>

\* C1: a check_out handled in the idle state writes the check-out time to the
\* highest-indexed row that has a check-in time and no check-out time, and
\* changes the check-out cell of no other row (no header, no blank row).
C1_CheckOutWritesLastOpenSession ==
    (last.op = "check_out" /\ last.state = "idle") =>
        LET open == OpenSessions(last.before)
        IN /\ Len(sheet) = Len(last.before)
           /\ \A i \in 1..Len(sheet) :
                 IF open # {} /\ i = MaxOf(open)
                 THEN /\ last.answer.kind = "check_out"
                      /\ sheet[i][4] = last.answer.time
                 ELSE sheet[i][4] = last.before[i][4]

\* C2: with no row that has a check-in time and a blank check-out time, a
\* check_out answers "check in first", writes no cell and leaves the
\* conversation idle.
C2_CheckOutWithoutOpenSession ==
    (last.op = "check_out" /\ OpenSessions(last.before) = {}) =>
        /\ last.answer.kind = "check_in_first"
        /\ sheet = last.before
        /\ fsm[last.chat] = "idle"

C4_NoteGoesToClosedRow ==
    (last.op = "note" /\ last.text = NoteText) =>
        /\ closed[last.chat] \in 1..Len(sheet)
        /\ sheet[closed[last.chat]][6] = last.text
        /\ fsm[last.chat] = "idle"

-----------------------------------------------------------------------------
(* Monthly statistics (SpecStats)                                          *)

\* the records, the month and the year of the stats request handled last
StatsRecords == get_all_values(last.before)
StatsMonth   == last.at.month
StatsYear    == last.at.year

\* total_minutes and worked_days of the records rs for the requested month
Aggregate(rs) ==
    [total_minutes |-> TotalMinutes(rs, StatsMonth, Len(rs)),
     worked_days   |-> WorkedDays(rs, StatsMonth)]

\* rs without its record i
Without(rs, i) == SubSeq(rs, 1, i - 1) \o SubSeq(rs, i + 1, Len(rs))

\* the date of r is three integers
DateIsThreeInts(r) ==
    LET date_parts == split(r[1], "/")
    IN Len(date_parts) = 3 /\ \A k \in 1..3 : PyInt(date_parts[k]).ok

DateYear(r)  == PyInt(split(r[1], "/")[1]).val
DateMonth(r) == PyInt(split(r[1], "/")[2]).val
DateDay(r)   == PyInt(split(r[1], "/")[3]).val

\* the duration of r is integer hours, ':', integer minutes (then anything)
DurationIsInts(r) ==
    LET time_parts == split(r[5], ":")
    IN Len(time_parts) >= 2 /\ PyInt(time_parts[1]).ok /\ PyInt(time_parts[2]).ok

DurationMinutes(r) ==
    PyInt(split(r[5], ":")[1]).val * 60 + PyInt(split(r[5], ":")[2]).val

\* the records of rs that are valid records of the requested month
ValidOfMonth(rs) ==
    {i \in 2..Len(rs) : /\ Len(rs[i]) >= 5
                        /\ DateIsThreeInts(rs[i])
                        /\ DateMonth(rs[i]) = StatsMonth
                        /\ DurationIsInts(rs[i])}

RECURSIVE SumMinutes(_, _)
SumMinutes(rs, S) ==
    IF S = {} THEN 0
    ELSE LET i == CHOOSE j \in S : TRUE
         IN DurationMinutes(rs[i]) + SumMinutes(rs, S \ {i})

\* the true length of a month of the Jalali calendar
JalaliMonthLength(year, month) ==
    IF month = 12 /\ isleap(year) THEN 30 ELSE j_days_in_month[month]

\* C5: a record with fewer than 5 fields, an empty date, an empty duration, a
\* date that is not three integers or a duration that is not integer
\* hours:minutes changes neither total_minutes nor worked_days, and does not
\* change whether a stats result is returned.
C5_MalformedRecordsAreDropped ==
    last.op = "stats" =>
        \A i \in 2..Len(StatsRecords) :
            LET r == StatsRecords[i]
            IN (\/ Len(r) < 5 \/ r[1] = <<>> \/ r[5] = <<>>
                \/ ~DateIsThreeInts(r) \/ ~DurationIsInts(r))
               => /\ Aggregate(Without(StatsRecords, i)) = Aggregate(StatsRecords)
                  /\ cmd_stats_answer(Without(StatsRecords, i), last.at).kind
                        = last.answer.kind

\* C6: a record whose year differs from the requested year contributes
\* nothing to total_minutes or worked_days.
C6_OtherYearContributesNothing ==
    last.op = "stats" =>
        \A i \in 2..Len(StatsRecords) :
            (/\ DateIsThreeInts(StatsRecords[i])
             /\ DateYear(StatsRecords[i]) # StatsYear)
            => Aggregate(Without(StatsRecords, i)) = Aggregate(StatsRecords)

\* C7: a day is in worked_days exactly when a record of the requested month
\* for that day has a duration that parses as integer hours:minutes.
C7_WorkedDayHasParsedDuration ==
    last.op = "stats" =>
        \A d \in (1..31) \cup Aggregate(StatsRecords).worked_days :
            (d \in Aggregate(StatsRecords).worked_days)
            <=> (\E i \in ValidOfMonth(StatsRecords) :
                     DateDay(StatsRecords[i]) = d)

\* C8: total_minutes is the sum of hours*60 + minutes over the valid records
\* of the requested month, and total_hours_display reads
\* floor(total_minutes/60) ':' total_minutes mod 60, each of two digits or more.
C8_TotalAndDisplay ==
    (last.op = "stats" /\ last.answer.kind = "stats") =>
        LET total   == Aggregate(StatsRecords).total_minutes
            display == split(last.answer.total_hours, ":")
        IN /\ total = SumMinutes(StatsRecords, ValidOfMonth(StatsRecords))
           /\ Len(display) = 2
           /\ Len(display[1]) >= 2 /\ Len(display[2]) = 2
           /\ PyInt(display[1]).ok /\ PyInt(display[1]).val = total \div 60
           /\ PyInt(display[2]).ok /\ PyInt(display[2]).val = total % 60

\* C9: with worked_days non-empty, projected_salary is
\* (total_hours + total_hours / |worked_days| * remaining) * hourly_rate,
\* remaining = total_business_days - elapsed_business_days, never negative.
C9_ProjectedSalary ==
    (/\ last.op = "stats" /\ last.answer.kind = "stats"
     /\ Aggregate(StatsRecords).worked_days # {}) =>
        LET total       == Aggregate(StatsRecords).total_minutes
            days_worked == Cardinality(Aggregate(StatsRecords).worked_days)
            elapsed     == NonFridays(StatsYear, StatsMonth, last.at.day)
            in_month    == NonFridays(StatsYear, StatsMonth,
                               JalaliMonthLength(StatsYear, StatsMonth))
            remaining   == in_month - elapsed
        IN /\ remaining >= 0
           /\ last.answer.projected_salary
                 = TruncDiv(total * (days_worked + remaining) * RateNum,
                            RateDen * days_worked)

\* C10: expected_salary is elapsed_business_days * 8 * hourly_rate, the
\* elapsed business days being the non-Fridays of [1, current_day].
C10_ExpectedSalary ==
    (last.op = "stats" /\ last.answer.kind = "stats") =>
        last.answer.expected_salary
            = NonFridays(StatsYear, StatsMonth, last.at.day) * 8 * hourly_rate

\* C11: whenever worked_days is empty for the requested month, the stats
\* result has projected_salary = 0, current_salary = 0 and a display of
\* "00:00", whatever the day, the month and the other rows of the ledger.
C11_NoWorkedDaysGivesZero ==
    (/\ last.op = "stats" /\ last.answer.kind = "stats"
     /\ Aggregate(StatsRecords).worked_days = {}) =>
        /\ last.answer.projected_salary = 0
        /\ last.answer.current_salary = 0
        /\ last.answer.total_hours = <<"0", "0", ":", "0", "0">>

\* a stats result for a ledger whose rows all belong to another month
C11_Witness ==
    /\ last.op = "stats" /\ last.answer.kind = "stats"
    /\ Aggregate(StatsRecords).worked_days = {}
    /\ \E i \in 2..Len(StatsRecords) :
           /\ DateIsThreeInts(StatsRecords[i])
           /\ DurationIsInts(StatsRecords[i])
           /\ DateMonth(StatsRecords[i]) # StatsMonth

\* C12: for every year, month and valid day d, the number of business days
\* the stats computation counts over [1, d] is at most the number it counts
\* over [1, get_last_day_of_month(year, month)].
C12_ElapsedBusinessDaysAtMostTotal ==
    (last.op = "stats" /\ last.answer.kind = "stats") =>
        NonFridays(StatsYear, StatsMonth, last.at.day)
            <= NonFridays(StatsYear, StatsMonth,
                          get_last_day_of_month(StatsYear, StatsMonth))

\* C13: get_last_day_of_month returns 31 for the months 1-6, 30 for the
\* months 7-11, and for month 12 it returns 30 exactly when the Jalali year
\* is a leap year and 29 otherwise.
C13_LastDayFollowsJalaliLeapRule ==
    last.op = "stats" =>
        /\ StatsMonth \in 1..6 =>
               get_last_day_of_month(StatsYear, StatsMonth) = 31
        /\ StatsMonth \in 7..11 =>
               get_last_day_of_month(StatsYear, StatsMonth) = 30
        /\ StatsMonth = 12 =>
               get_last_day_of_month(StatsYear, StatsMonth)
                   = IF isleap(StatsYear) THEN 30 ELSE 29

Targeting == {c \in Chats : data[c].has}

C16_WriteFailureIsReported ==
    last.op \in {"check_out_failed", "note_failed"} =>
        /\ last.answer.kind = "failure"
        /\ fsm[last.chat] = "waiting" => data[last.chat].has

\* C17: the duration written at check-out is ((t_out - t_in) mod 24 h)
\* truncated to whole minutes, written H:MM:00 with 0 <= H <= 23; a check-out
\* before the check-in time of day wraps past midnight; and the aggregator's
\* hours:minutes parse of the written duration gives back the same minutes.
C17_DurationIsWrappedWholeMinutes ==
    (last.op = "check_out" /\ data[last.chat].has) =>
        LET row     == closed[last.chat]
            t_in    == strptime(last.before[row][3]).secs
            minutes == ((last.at.secs - t_in) % 86400) \div 60
            parts   == split(sheet[row][5], ":")
        IN /\ Len(parts) = 3
           /\ PyInt(parts[1]).ok /\ PyInt(parts[1]).val = minutes \div 60
           /\ minutes \div 60 \in 0..23
           /\ Len(parts[2]) = 2
           /\ PyInt(parts[2]).ok /\ PyInt(parts[2]).val = minutes % 60
           /\ parts[3] = <<"0", "0">>
           /\ data[last.chat].total_hours = sheet[row][5]
           /\ ParseRecord(sheet[row], last.at.month)
                  = [counted |-> TRUE, day |-> last.at.day, minutes |-> minutes]

\* a check-out whose time of day is before the check-in's
C17_Witness ==
    /\ last.op = "check_out" /\ data[last.chat].has
    /\ last.at.secs < strptime(last.before[closed[last.chat]][3]).secs
    /\ sheet[closed[last.chat]][5] # <<>>

\* C18: the "Total Hours This Month" figure sent after the note is recorded
\* equals the total_hours display a stats request returns on the same ledger
\* at the same instant.
C18_MonthlyTotalEqualsStatsDisplay ==
    (last.op = "note" /\ last.text = NoteText /\ last.answer.kind = "summary") =>
        /\ cmd_stats_answer(sheet, last.at).kind = "stats"
        /\ last.answer.monthly_total
               = cmd_stats_answer(sheet, last.at).total_hours

\* C19: every "Check In" message, whether its conversation is idle or awaits
\* a note, results in exactly one new session row with today's date, weekday
\* and check-in time and blank check-out, duration and note; and no
\* "Check In" or "Check Out" message is stored as the note of a session.
C19_CheckInAlwaysOpensSession ==
    (last.op # "none" /\ last.text \in {CheckInText, CheckOutText}) =>
        /\ last.text = CheckInText =>
               /\ Len(sheet) = Len(last.before) + 1
               /\ NewSession(sheet[Len(sheet)], last.at)
        /\ \A i \in 2..Len(sheet) :
               sheet[i][6] = last.text =>
                   (i <= Len(last.before) /\ last.before[i][6] = last.text)

\* C20: after any sequence of requests handled one at a time, every row with
\* a non-empty check-out time also has a non-empty duration.
C20_CheckOutHasDuration ==
    \A i \in 2..Len(sheet) : sheet[i][4] # <<>> => sheet[i][5] # <<>>

====
